---- MODULE Spec2Model ----
(***************************************************************************)
(* Lead Generator: the "Generate Leads" handler of streamlit_app.py and    *)
(* the four-task sequential crew of lead_generator/crew.py.                *)
(*                                                                         *)
(* One press of the button is modelled step by step: the input guard, the  *)
(* crew's kickoff (one step per task start and per task end), the display  *)
(* of the parsed leads, the report for download and the usage metrics.     *)
(* The model follows one press in a fresh session.                         *)
(***************************************************************************)
EXTENDS Integers, Sequences, FiniteSets, TLC

VARIABLES
    industry,        \* text input "industry" of the press
    country,         \* text input "country" of the press
    api_key,         \* whether OPENAI_API_KEY is set
    pc,              \* position of the script
    running,         \* the tasks the crew is executing
    invoked,         \* tasks whose agent was invoked, in order of invocation
    raw_out,         \* task -> its raw output (Undefined until it completes)
    ctx_passed,      \* task -> the context handed to its agent at its start
    status,          \* label state of the st.status box
    messages,        \* st.error / st.warning / st.success shown, in order
    session_results, \* st.session_state.results
    results_list,    \* local results_list
    displayed,       \* leads for which an expander was rendered, in order
    download_data,   \* local download_data
    usage_metrics,   \* text of lead_gen_crew.usage_metrics
    metrics_dict,    \* local metrics_dict
    pricing_tracker, \* st.session_state.pricing_tracker
    tracked,         \* ghost: arguments of the track_usage calls since the last reset
    calls,           \* calls made on the pricing tracker
    summary,         \* last value returned by get_usage_summary (<<>>: none yet)
    sharers          \* run -> its track_usage call on a tracker it shares

vars == <<industry, country, api_key, pc, running, invoked, raw_out,
          ctx_passed, status, messages, session_results, results_list,
          displayed, download_data, usage_metrics, metrics_dict,
          pricing_tracker, tracked, calls, summary, sharers>>

-----------------------------------------------------------------------------
(* Bounds                                                                   *)

MaxLeads == 2         \* leads in a final task's output
MaxUsageLen == 5      \* atoms in a bounded usage text
MaxCalls == 3         \* calls on the usage accountant in SpecTracker
MaxSharers == 2       \* concurrent runs sharing one usage accountant

-----------------------------------------------------------------------------
(* Values.  Every value is a record [t, v]: t is the Python type, v the     *)
(* payload as a sequence.  A text is a sequence of atoms (runs of           *)
(* characters); a dict is a sequence of <<key, value>> pairs in insertion   *)
(* order.                                                                   *)

Undefined == [t |-> "undefined", v |-> <<>>]
Null == [t |-> "null", v |-> <<>>]
IntV(n) == [t |-> "int", v |-> <<n>>]
StrV(atoms) == [t |-> "str", v |-> atoms]
ListV(items) == [t |-> "list", v |-> items]
DictV(pairs) == [t |-> "dict", v |-> pairs]

Digits == <<"0", "1", "2", "3", "4", "5", "6", "7", "8", "9">>

IsDigit(a) == \E i \in 1..10 : Digits[i] = a

DigitVal(a) == (CHOOSE i \in 1..10 : Digits[i] = a) - 1

\* Python's int(text) / float(text) on a text of plain characters: defined
\* exactly when the text is a non-empty run of digits.
IsNumeral(atoms) == Len(atoms) > 0 /\ \A i \in 1..Len(atoms) : IsDigit(atoms[i])

RECURSIVE NumeralVal(_)
NumeralVal(atoms) ==
    IF atoms = <<>> THEN 0
    ELSE 10 * NumeralVal(SubSeq(atoms, 1, Len(atoms) - 1))
         + DigitVal(atoms[Len(atoms)])

HasKey(d, k) == \E i \in 1..Len(d.v) : d.v[i][1] = k

\* dict.get(k, default)
Get(d, k, default) ==
    IF HasKey(d, k)
    THEN d.v[CHOOSE i \in 1..Len(d.v) : d.v[i][1] = k][2]
    ELSE default

-----------------------------------------------------------------------------
(* crew.py                                                                  *)

NoTask == "none"

\* LeadOutput: the declared fields of one lead.
LeadOutput ==
    <<"company_name", "annual_revenue", "location", "website_url", "review",
      "num_employees", "key_decision_makers", "score">>

\* self.tasks: the @task methods in their order of definition.
Tasks ==
    <<"lead_generation_task", "contact_research_task",
      "lead_qualification_task", "sales_management_task">>

TaskSet == {Tasks[i] : i \in 1..Len(Tasks)}

ContextForward(t) ==
    CASE t = "lead_generation_task" -> <<>>
      [] t = "contact_research_task" ->
            <<"lead_generation_task", "lead_qualification_task">>
      [] t = "lead_qualification_task" ->
            <<"lead_generation_task", "contact_research_task">>
      [] t = "sales_management_task" ->
            <<"lead_generation_task", "lead_qualification_task",
              "contact_research_task">>

\* context=[...] of each Task.
Context(t) ==
    CASE t = "lead_generation_task" -> <<>>
      [] t = "contact_research_task" -> <<"lead_generation_task">>
      [] t = "lead_qualification_task" ->
            <<"lead_generation_task", "contact_research_task">>
      [] t = "sales_management_task" ->
            <<"lead_generation_task", "lead_qualification_task",
              "contact_research_task">>

\* The context of a task: the raw outputs of its context tasks, in the
\* order the list names them.
BuildContext(t, outs) ==
    [i \in 1..Len(Context(t)) |-> outs[Context(t)[i]]]

Completed == {t \in TaskSet : raw_out[t] # Undefined}

NextTaskEager ==
    IF Len(invoked) < Len(Tasks) THEN Tasks[Len(invoked) + 1] ELSE NoTask

\* Process.sequential: the next task is the first one not yet run, and it
\* starts only when no task is executing.
NextTask ==
    IF running = {} /\ Len(invoked) < Len(Tasks)
    THEN Tasks[Len(invoked) + 1]
    ELSE NoTask

-----------------------------------------------------------------------------
(* Raw outputs.  The raw output of a task is a text; what the handler does  *)
(* with it is json.loads, so a raw text is modelled by the task that wrote  *)
(* it and by what json.loads makes of it: the JSON value it spells, or      *)
(* Garbage when it is not JSON.                                             *)

Garbage == [t |-> "garbage", v |-> <<>>]

RawText(t, body) == [t |-> "raw", v |-> <<t, body>>]

BodyOf(raw) == raw.v[2]

\* json.loads(raw): raises on a text that is not JSON.
JsonLoadsRaises(raw) == BodyOf(raw) = Garbage

JsonLoads(raw) == BodyOf(raw)

\* A lead with every declared field; only the name and the score vary.
FullLead(name, score) ==
    DictV(<< <<"company_name", StrV(<<name>>)>>,
             <<"annual_revenue", Null>>,
             <<"location", Null>>,
             <<"website_url", Null>>,
             <<"review", StrV(<<"r">>)>>,
             <<"num_employees", IntV(5)>>,
             <<"key_decision_makers", Null>>,
             <<"score", score>> >>)

\* The items a final task's JSON list is drawn from: complete leads with an
\* integer, a null, a numeral-text and a word-text score, a lead with no
\* key but its name, and an item that is not a mapping.  Integer scores
\* stay within 0..10, the range st.progress accepts.
SampleItems ==
    { FullLead("Acme", IntV(9)),
      FullLead("Bolt", IntV(7)),
      FullLead("Cent", Null),
      FullLead("Dyna", StrV(<<"high">>)),
      FullLead("Echo", StrV(<<"8">>)),
      DictV(<< <<"company_name", StrV(<<"Fuse">>)>> >>),
      StrV(<<"oops">>) }

RECURSIVE SeqsUpTo(_, _)
SeqsUpTo(S, n) ==
    IF n = 0 THEN {<<>>}
    ELSE LET shorter == SeqsUpTo(S, n - 1)
         IN shorter \cup {Append(s, x) : s \in {q \in shorter : Len(q) = n - 1}, x \in S}

\* What a task before the last may write: JSON or not.
StageBodies == {Garbage, ListV(<<>>)}

\* What the last task may write.
FinalBodies == {Garbage} \cup {ListV(s) : s \in SeqsUpTo(SampleItems, MaxLeads)}

BodiesOf(t) == IF t = Tasks[Len(Tasks)] THEN FinalBodies ELSE StageBodies

-----------------------------------------------------------------------------
(* Display of the leads (streamlit_app.py, the first try block)             *)

\* float(x) raises on None (TypeError), on a text that is no number
\* (ValueError) and on a list or a dict (TypeError).
FloatRaises(x) == ~(x.t = "int" \/ (x.t = "str" /\ IsNumeral(x.v)))

FloatOf(x) == IF x.t = "int" THEN x.v[1] ELSE NumeralVal(x.v)

IsDict(x) == x.t = "dict"

\* lead.get('score', 0)
ScoreOf(lead) == Get(lead, "score", IntV(0))

\* Whether the metrics, the sort key or the card of some item raises: each
\* evaluates float(lead.get('score', 0)) on every item that is a dict.
ScoreRaises(items) ==
    \E i \in 1..Len(items) : IsDict(items[i]) /\ FloatRaises(ScoreOf(items[i]))

\* key=lambda x: float(x.get('score', 0)) if isinstance(x, dict) else 0
SortKey(x) == IF IsDict(x) THEN FloatOf(ScoreOf(x)) ELSE 0

InsertByKeyBeforeEqual(sorted, x) ==
    LET lower == {i \in 1..Len(sorted) : SortKey(sorted[i]) <= SortKey(x)}
        at == IF lower = {} THEN Len(sorted) + 1
              ELSE CHOOSE i \in lower : \A j \in lower : i <= j
    IN SubSeq(sorted, 1, at - 1) \o <<x>> \o SubSeq(sorted, at, Len(sorted))

\* x placed after every element whose key is at least its own.
InsertByKey(sorted, x) ==
    LET lower == {i \in 1..Len(sorted) : SortKey(sorted[i]) < SortKey(x)}
        at == IF lower = {} THEN Len(sorted) + 1
              ELSE CHOOSE i \in lower : \A j \in lower : i <= j
    IN SubSeq(sorted, 1, at - 1) \o <<x>> \o SubSeq(sorted, at, Len(sorted))

\* sorted(results_list, key=..., reverse=True): descending and stable.
RECURSIVE SortedByScore(_)
SortedByScore(items) ==
    IF items = <<>> THEN <<>>
    ELSE InsertByKey(SortedByScore(SubSeq(items, 1, Len(items) - 1)),
                     items[Len(items)])

\* The cards rendered: the loop skips what is not a dict.
Cards(items) == SelectSeq(items, IsDict)

-----------------------------------------------------------------------------
(* The report for download (streamlit_app.py, the second try block).  A     *)
(* text is a sequence of atoms; "NL" is the line break, "  " one level of   *)
(* indentation, QUOTE the double quote, BSLASH the backslash and FENCE the  *)
(* three backquotes of a code fence.                                       *)

NL == "NL"
QUOTE == "QUOTE"
BSLASH == "BSLASH"
FENCE == "FENCE"

RECURSIVE NumeralOf(_)
NumeralOf(n) ==
    IF n < 10 THEN <<Digits[n + 1]>>
    ELSE Append(NumeralOf(n \div 10), Digits[(n % 10) + 1])

RECURSIVE Flatten(_)
Flatten(seqs) ==
    IF seqs = <<>> THEN <<>> ELSE Head(seqs) \o Flatten(Tail(seqs))

\* What an f-string makes of a value: a text as it is (line breaks
\* included), None for null, the digits of an integer, the repr of a
\* container (one line: repr escapes line breaks).
PyStr(x) ==
    CASE x.t = "str" -> x.v
      [] x.t = "null" -> <<"None">>
      [] x.t = "int" -> NumeralOf(x.v[1])
      [] OTHER -> <<"<repr>">>

\* bool(x)
Truthy(x) ==
    CASE x.t = "null" -> FALSE
      [] x.t = "int" -> x.v[1] # 0
      [] OTHER -> x.v # <<>>

NA == StrV(<<"N/A">>)

\* One line of the decision makers' section; iterating a text or a dict
\* yields texts, which the loop skips.
PersonLine(person) ==
    IF IsDict(person)
    THEN <<"- ">> \o PyStr(Get(person, "name", NA)) \o <<" (">>
         \o PyStr(Get(person, "role", NA)) \o <<"): ">>
         \o PyStr(Get(person, "linkedin", NA)) \o <<NL>>
    ELSE <<>>

PersonLines(kdm) ==
    IF kdm.t = "list"
    THEN Flatten([i \in 1..Len(kdm.v) |-> PersonLine(kdm.v[i])])
    ELSE <<>>

\* The section of one lead.
LeadSection(lead) ==
    LET kdm == Get(lead, "key_decision_makers", ListV(<<>>))
    IN <<"## ">> \o PyStr(Get(lead, "company_name", NA)) \o <<NL, NL>>
       \o <<"- **Annual Revenue:** ">> \o PyStr(Get(lead, "annual_revenue", NA)) \o <<NL>>
       \o <<"- **Website:** ">> \o PyStr(Get(lead, "website_url", NA)) \o <<NL>>
       \o <<"- **Review:** ">> \o PyStr(Get(lead, "review", NA)) \o <<NL>>
       \o <<"- **Number of Employees:** ">> \o PyStr(Get(lead, "num_employees", NA)) \o <<NL>>
       \o <<"- **Score:** ">> \o PyStr(Get(lead, "score", NA)) \o <<"/10", NL, NL>>
       \o (IF Truthy(kdm)
           THEN <<"### Key Decision Makers", NL>> \o PersonLines(kdm) \o <<NL>>
           ELSE <<>>)
       \o <<"---", NL, NL>>

\* The report raises on an item that is not a dict (no .get) and on
\* decision makers that are a non-zero integer (not iterable).
ReportRaises(items) ==
    \E i \in 1..Len(items) :
        \/ ~IsDict(items[i])
        \/ LET kdm == Get(items[i], "key_decision_makers", ListV(<<>>))
           IN kdm.t = "int" /\ Truthy(kdm)

EscapeAtomNone(a) == <<a>>

\* json.dumps escapes the line break, the quote and the backslash of a text.
EscapeAtom(a) ==
    CASE a = NL -> <<BSLASH, "n">>
      [] a = QUOTE -> <<BSLASH, QUOTE>>
      [] a = BSLASH -> <<BSLASH, BSLASH>>
      [] OTHER -> <<a>>

\* A text as json.dumps writes it: quoted, its line breaks, quotes and
\* backslashes escaped.
JsonString(atoms) ==
    <<QUOTE>> \o Flatten([i \in 1..Len(atoms) |-> EscapeAtom(atoms[i])]) \o <<QUOTE>>

Indent(level) == [i \in 1..level |-> "  "]

\* json.dumps(x, indent=2), x at nesting depth level.
RECURSIVE JsonDumps(_, _)
JsonDumps(x, level) ==
    CASE x.t = "null" -> <<"null">>
      [] x.t = "int" -> NumeralOf(x.v[1])
      [] x.t = "str" -> JsonString(x.v)
      [] x.t = "list" ->
            IF x.v = <<>> THEN <<"[]">>
            ELSE <<"[", NL>>
                 \o Flatten([i \in 1..Len(x.v) |->
                        Indent(level + 1) \o JsonDumps(x.v[i], level + 1)
                        \o (IF i < Len(x.v) THEN <<",", NL>> ELSE <<NL>>)])
                 \o Indent(level) \o <<"]">>
      [] x.t = "dict" ->
            IF x.v = <<>> THEN <<"{}">>
            ELSE <<"{", NL>>
                 \o Flatten([i \in 1..Len(x.v) |->
                        Indent(level + 1) \o JsonString(<<x.v[i][1]>>)
                        \o <<":", " ">> \o JsonDumps(x.v[i][2], level + 1)
                        \o (IF i < Len(x.v) THEN <<",", NL>> ELSE <<NL>>)])
                 \o Indent(level) \o <<"}">>

ReportHeader == <<"# Lead Generation Report", NL, NL>>

OpenFence == <<NL, "## Raw JSON Data", NL, NL, FENCE, "json", NL>>

CloseFence == <<NL, FENCE, NL>>

\* download_data when nothing raises: the header, one section per lead,
\* then the fenced json.dumps(results_list, indent=2).
Report(items) ==
    ReportHeader
    \o Flatten([i \in 1..Len(items) |-> LeadSection(items[i])])
    \o OpenFence
    \o JsonDumps(ListV(items), 0)
    \o CloseFence

\* download_data = f"Error generating report: {str(e)}"
ErrorReport == <<"Error generating report: ", "<exception>">>

\* download_data of the second try block; results_list is Undefined when
\* json.loads raised before assigning it (a NameError here).
DownloadData(list) ==
    IF list = Undefined \/ ReportRaises(list.v) THEN ErrorReport
    ELSE Report(list.v)

-----------------------------------------------------------------------------
(* Reading a report back: the fenced block at the end of the report, parsed *)
(* as JSON.                                                                 *)

Fail == [ok |-> FALSE, val |-> Undefined, next |-> 0]

IsSpace(a) == a \in {NL, "  ", " "}

RECURSIVE SkipSpace(_, _)
SkipSpace(toks, i) ==
    IF i <= Len(toks) /\ IsSpace(toks[i]) THEN SkipSpace(toks, i + 1) ELSE i

\* The text after an opening quote at i - 1, up to its closing quote.
RECURSIVE ParseString(_, _, _)
ParseString(toks, i, acc) ==
    IF i > Len(toks) \/ toks[i] = NL THEN Fail
    ELSE IF toks[i] = QUOTE THEN [ok |-> TRUE, val |-> StrV(acc), next |-> i + 1]
    ELSE IF toks[i] = BSLASH
         THEN IF i + 1 > Len(toks) THEN Fail
              ELSE IF toks[i + 1] = "n" THEN ParseString(toks, i + 2, Append(acc, NL))
              ELSE IF toks[i + 1] \in {QUOTE, BSLASH}
                   THEN ParseString(toks, i + 2, Append(acc, toks[i + 1]))
              ELSE Fail
    ELSE ParseString(toks, i + 1, Append(acc, toks[i]))

RECURSIVE DigitsEnd(_, _)
DigitsEnd(toks, i) ==
    IF i <= Len(toks) /\ IsDigit(toks[i]) THEN DigitsEnd(toks, i + 1) ELSE i

RECURSIVE ParseValue(_, _)
RECURSIVE ParseItems(_, _, _)
RECURSIVE ParsePairs(_, _, _)

\* The JSON value that starts at or after i.
ParseValue(toks, i) ==
    LET j == SkipSpace(toks, i)
    IN IF j > Len(toks) THEN Fail
       ELSE CASE toks[j] = "null" -> [ok |-> TRUE, val |-> Null, next |-> j + 1]
              [] toks[j] = "[]" -> [ok |-> TRUE, val |-> ListV(<<>>), next |-> j + 1]
              [] toks[j] = "{}" -> [ok |-> TRUE, val |-> DictV(<<>>), next |-> j + 1]
              [] toks[j] = "[" -> ParseItems(toks, j + 1, <<>>)
              [] toks[j] = "{" -> ParsePairs(toks, j + 1, <<>>)
              [] toks[j] = QUOTE -> ParseString(toks, j + 1, <<>>)
              [] IsDigit(toks[j]) ->
                    LET e == DigitsEnd(toks, j)
                    IN [ok |-> TRUE,
                        val |-> IntV(NumeralVal(SubSeq(toks, j, e - 1))),
                        next |-> e]
              [] OTHER -> Fail

\* The items of a list after its "[", up to its "]".
ParseItems(toks, i, acc) ==
    LET item == ParseValue(toks, i)
    IN IF ~item.ok THEN Fail
       ELSE LET j == SkipSpace(toks, item.next)
            IN IF j > Len(toks) THEN Fail
               ELSE IF toks[j] = ","
                    THEN ParseItems(toks, j + 1, Append(acc, item.val))
               ELSE IF toks[j] = "]"
                    THEN [ok |-> TRUE, val |-> ListV(Append(acc, item.val)),
                          next |-> j + 1]
               ELSE Fail

\* The pairs of a mapping after its "{", up to its "}".
ParsePairs(toks, i, acc) ==
    LET j == SkipSpace(toks, i)
    IN IF j > Len(toks) \/ toks[j] # QUOTE THEN Fail
       ELSE LET key == ParseString(toks, j + 1, <<>>)
            IN IF ~key.ok \/ Len(key.val.v) # 1 THEN Fail
               ELSE LET c == SkipSpace(toks, key.next)
                    IN IF c > Len(toks) \/ toks[c] # ":" THEN Fail
                       ELSE LET item == ParseValue(toks, c + 1)
                            IN IF ~item.ok THEN Fail
                               ELSE LET k == SkipSpace(toks, item.next)
                                        pairs == Append(acc, <<key.val.v[1], item.val>>)
                                    IN IF k > Len(toks) THEN Fail
                                       ELSE IF toks[k] = ","
                                            THEN ParsePairs(toks, k + 1, pairs)
                                       ELSE IF toks[k] = "}"
                                            THEN [ok |-> TRUE, val |-> DictV(pairs),
                                                  next |-> k + 1]
                                       ELSE Fail

\* json.loads of a text: one value and nothing but space after it;
\* Undefined when the text is not JSON.
ParseJson(toks) ==
    LET r == ParseValue(toks, 1)
    IN IF r.ok /\ SkipSpace(toks, r.next) > Len(toks) THEN r.val ELSE Undefined

Occurrences(text, pat, from) ==
    {i \in from..(Len(text) - Len(pat) + 1) : SubSeq(text, i, i + Len(pat) - 1) = pat}

\* The structured dump of a report: what lies between the last opening
\* fence and the closing fence that follows it, parsed as JSON.
ExtractDump(report) ==
    LET opens == Occurrences(report, OpenFence, 1)
    IN IF opens = {} THEN Undefined
       ELSE LET start == (CHOOSE i \in opens : \A j \in opens : j <= i) + Len(OpenFence)
                closes == Occurrences(report, CloseFence, start)
            IN IF closes = {} THEN Undefined
               ELSE LET end == CHOOSE i \in closes : \A j \in closes : i <= j
                    IN ParseJson(SubSeq(report, start, end - 1))

-----------------------------------------------------------------------------
(* Usage metrics (streamlit_app.py, the third try block).  The text of the  *)
(* metrics is a sequence of atoms; " " is the blank and "=" the equals      *)
(* sign.                                                                    *)

\* text.split(sep): the parts between the separators, empty ones kept.
RECURSIVE SplitOn(_, _)
SplitOn(text, sep) ==
    LET at == {i \in 1..Len(text) : text[i] = sep}
    IN IF at = {} THEN <<text>>
       ELSE LET i == CHOOSE i \in at : \A j \in at : i <= j
            IN <<SubSeq(text, 1, i - 1)>> \o SplitOn(SubSeq(text, i + 1, Len(text)), sep)

NonEmpty(part) == part # <<>>

\* text.split(): the runs between blanks.
SplitWhitespace(text) == SelectSeq(SplitOn(text, " "), NonEmpty)

\* int(value) when it succeeds, the text itself on ValueError.
Coerce(value) ==
    IF IsNumeral(value) THEN IntV(NumeralVal(value)) ELSE StrV(value)

\* d[k] = x
SetItem(d, k, x) ==
    IF HasKey(d, k)
    THEN DictV([i \in 1..Len(d.v) |-> IF d.v[i][1] = k THEN <<k, x>> ELSE d.v[i]])
    ELSE DictV(Append(d.v, <<k, x>>))

\* The parsing loop from item i on.  "key, value = item.split('=')" raises
\* ValueError, outside the inner try, unless the split has two parts; the
\* dict then holds what the items before it gave.
RECURSIVE ParseMetricsFrom(_, _, _)
ParseMetricsFrom(items, i, d) ==
    IF i > Len(items) THEN [raised |-> FALSE, dict |-> d]
    ELSE IF \E j \in 1..Len(items[i]) : items[i][j] = "="
         THEN LET parts == SplitOn(items[i], "=")
              IN IF Len(parts) # 2 THEN [raised |-> TRUE, dict |-> d]
                 ELSE ParseMetricsFrom(items, i + 1,
                                       SetItem(d, parts[1], Coerce(parts[2])))
    ELSE ParseMetricsFrom(items, i + 1, d)

ParseMetrics(text) == ParseMetricsFrom(SplitWhitespace(text), 1, DictV(<<>>))

\* metrics_dict.get('prompt_tokens', 0)
InputTokens(d) == Get(d, <<"prompt_tokens">>, IntV(0))

\* metrics_dict.get('completion_tokens', 0)
OutputTokens(d) == Get(d, <<"completion_tokens">>, IntV(0))

\* (tokens / 1000000) raises TypeError on a text.
CostRaises(d) == InputTokens(d).t # "int" \/ OutputTokens(d).t # "int"

-----------------------------------------------------------------------------
(* The pricing tracker (src/utils/pricing.py, ModelsPricing)                *)

NewTracker == [input_tokens |-> 0, output_tokens |-> 0]

TrackUsageInputOnly(tr, i, o) ==
    [input_tokens |-> tr.input_tokens + i, output_tokens |-> tr.output_tokens]

\* track_usage(input_tokens, output_tokens): both counters grow.
TrackUsage(tr, i, o) ==
    [input_tokens |-> tr.input_tokens + i, output_tokens |-> tr.output_tokens + o]

\* reset(): both counters to zero.
ResetUsage(tr) == [input_tokens |-> 0, output_tokens |-> 0]

\* get_usage_summary(): the two counters.
GetUsageSummary(tr) == <<tr.input_tokens, tr.output_tokens>>

\* The runs that share a tracker, and a run that has not reached its
\* track_usage call: snap is the tracker as the run saw it on entering.
Sharers == 1..MaxSharers
NotTracking == [pc |-> "ready", args |-> <<0, 0>>, snap |-> NewTracker]

\* The counters an increment starts from.  A lost update is an increment
\* that starts from the counters seen on entering the call.
CommitBaseStale(current, entered) == entered

\* The increments are serialized: each starts from the current counters.
CommitBase(current, entered) == current

-----------------------------------------------------------------------------
(* Inputs                                                                   *)

Industries == {"", "FinTech"}
Countries == {"", "Canada"}

\* str(lead_gen_crew.usage_metrics) of the specification's example.
ExampleUsage ==
    <<"prompt_tokens", "=", "1", "2", "0", " ",
      "completion_tokens", "=", "4", "5", " ",
      "total_tokens", "=", "1", "6", "5", " ",
      "model", "=", "gpt-4">>

\* The usage texts of a full press: the example, the empty text, a count
\* that is no integer, a token with two equals signs.
UsageSamples ==
    { ExampleUsage,
      <<>>,
      <<"prompt_tokens", "=", "x">>,
      <<"x", "=", "7", "=", "7">> }

-----------------------------------------------------------------------------
(* The handler of the "Generate Leads" button                               *)

Init ==
    /\ industry = ""
    /\ country = ""
    /\ api_key = FALSE
    /\ pc = "idle"
    /\ running = {}
    /\ invoked = <<>>
    /\ raw_out = [t \in TaskSet |-> Undefined]
    /\ ctx_passed = [t \in TaskSet |-> Undefined]
    /\ status = "none"
    /\ messages = <<>>
    /\ session_results = Undefined
    /\ results_list = Undefined
    /\ displayed = <<>>
    /\ download_data = Undefined
    /\ usage_metrics = Undefined
    /\ metrics_dict = Undefined
    /\ pricing_tracker = NewTracker
    /\ tracked = <<>>
    /\ calls = 0
    /\ summary = <<>>
    /\ sharers = [r \in Sharers |-> NotTracking]

MissingInputBoth(ind, ctry) == ind = "" /\ ctry = ""

\* if not industry or not country
MissingInput(ind, ctry) == ind = "" \/ ctry = ""

crewVars == <<running, invoked, raw_out, ctx_passed>>
displayVars == <<session_results, results_list, displayed, download_data>>
usageVars ==
    <<usage_metrics, metrics_dict, pricing_tracker, tracked, calls, summary, sharers>>

\* The button is pressed with the two inputs as typed: an error for a
\* missing input, a warning for a missing key, else the status box opens
\* and the crew is built.
RunButton(ind, ctry, key) ==
    /\ pc = "idle"
    /\ industry' = ind
    /\ country' = ctry
    /\ api_key' = key
    /\ IF MissingInput(ind, ctry)
       THEN /\ messages' = Append(messages, "missing_input")
            /\ pc' = "done"
            /\ UNCHANGED status
       ELSE IF ~key
       THEN /\ messages' = Append(messages, "missing_api_key")
            /\ pc' = "done"
            /\ UNCHANGED status
       ELSE /\ status' = "running"
            /\ pc' = "kickoff"
            /\ UNCHANGED messages
    /\ UNCHANGED <<crewVars, displayVars, usageVars>>

\* kickoff: the next task starts; its agent is invoked with the inputs
\* and the context built from the outputs so far.
StartTask ==
    /\ pc = "kickoff"
    /\ NextTask # NoTask
    /\ running' = running \cup {NextTask}
    /\ invoked' = Append(invoked, NextTask)
    /\ ctx_passed' = [ctx_passed EXCEPT ![NextTask] = ListV(BuildContext(NextTask, raw_out))]
    /\ UNCHANGED <<industry, country, api_key, pc, raw_out, status, messages,
                   displayVars, usageVars>>

\* kickoff: a running task ends with a raw output.  An output that does
\* not fit output_pydantic is kept as raw text and the crew goes on.
FinishTask(t, body) ==
    /\ pc = "kickoff"
    /\ t \in running
    /\ raw_out' = [raw_out EXCEPT ![t] = RawText(t, body)]
    /\ running' = running \ {t}
    /\ UNCHANGED <<industry, country, api_key, pc, invoked, ctx_passed, status,
                   messages, displayVars, usageVars>>

\* kickoff: the agent of a running task raises; kickoff raises, and the
\* handler's outer except marks the status box, shows str(e) and stops.
FailTask(t) ==
    /\ pc = "kickoff"
    /\ t \in running
    /\ running' = {}
    /\ status' = "error"
    /\ messages' = Append(messages, "run_error")
    /\ pc' = "stopped"
    /\ UNCHANGED <<industry, country, api_key, invoked, raw_out, ctx_passed,
                   displayVars, usageVars>>

\* results.tasks_output: the raw outputs in the order of the tasks.
TasksOutput(outs) == ListV([i \in 1..Len(Tasks) |-> outs[Tasks[i]]])

\* kickoff returns: the result goes to the session and the status box is
\* marked complete, before anything is parsed.
KickoffReturns(usage) ==
    /\ pc = "kickoff"
    /\ running = {}
    /\ Len(invoked) = Len(Tasks)
    /\ session_results' = TasksOutput(raw_out)
    /\ status' = "complete"
    /\ messages' = Append(messages, "success")
    /\ usage_metrics' = StrV(usage)
    /\ pc' = "display"
    /\ UNCHANGED <<industry, country, api_key, crewVars, results_list, displayed,
                   download_data, metrics_dict, pricing_tracker, tracked, calls,
                   summary, sharers>>

\* results.tasks_output[-1]
LastTask(results) == results.v[Len(results.v)]

\* The first try block: the last task's raw output is parsed, an empty
\* list stops the script, the leads are sorted and a card is rendered for
\* each; any exception ends the block with an error message.
DisplayResults ==
    /\ pc = "display"
    /\ LET raw == LastTask(session_results)
       IN IF JsonLoadsRaises(raw)
          THEN /\ messages' = Append(messages, "display_error")
               /\ pc' = "download"
               /\ UNCHANGED <<results_list, displayed>>
          ELSE IF JsonLoads(raw).v = <<>>
          THEN /\ results_list' = JsonLoads(raw)
               /\ messages' = Append(messages, "no_leads")
               /\ pc' = "stopped"
               /\ UNCHANGED displayed
          ELSE IF ScoreRaises(JsonLoads(raw).v)
          THEN /\ results_list' = JsonLoads(raw)
               /\ messages' = Append(messages, "display_error")
               /\ pc' = "download"
               /\ UNCHANGED displayed
          ELSE /\ results_list' = ListV(SortedByScore(JsonLoads(raw).v))
               /\ displayed' = Cards(SortedByScore(JsonLoads(raw).v))
               /\ pc' = "download"
               /\ UNCHANGED messages
    /\ UNCHANGED <<industry, country, api_key, crewVars, status, session_results,
                   download_data, usageVars>>

\* The second try block and the download button.
DownloadReport ==
    /\ pc = "download"
    /\ download_data' = DownloadData(results_list)
    /\ pc' = "usage"
    /\ UNCHANGED <<industry, country, api_key, crewVars, status, messages,
                   session_results, results_list, displayed, usageVars>>

\* The third try block: the crew has usage_metrics (crew.py sets it), so
\* its text is parsed, the counts are read and the tracker is updated; any
\* exception on the way ends the block with a warning.
UsageSection ==
    /\ pc = "usage"
    /\ LET parsed == ParseMetrics(usage_metrics.v)
       IN IF parsed.raised
          THEN /\ metrics_dict' = parsed.dict
               /\ messages' = Append(messages, "usage_warning")
               /\ UNCHANGED <<pricing_tracker, tracked, calls>>
          ELSE /\ metrics_dict' = parsed.dict
               /\ IF CostRaises(parsed.dict)
                  THEN /\ messages' = Append(messages, "usage_warning")
                       /\ UNCHANGED <<pricing_tracker, tracked, calls>>
                  ELSE /\ pricing_tracker' =
                              TrackUsage(pricing_tracker,
                                         InputTokens(parsed.dict).v[1],
                                         OutputTokens(parsed.dict).v[1])
                       /\ tracked' = Append(tracked,
                                            <<InputTokens(parsed.dict).v[1],
                                              OutputTokens(parsed.dict).v[1]>>)
                       /\ calls' = calls + 1
                       /\ UNCHANGED messages
    /\ pc' = "done"
    /\ UNCHANGED <<industry, country, api_key, crewVars, status, displayVars,
                   usage_metrics, summary, sharers>>

Next ==
    \/ \E ind \in Industries, ctry \in Countries, key \in BOOLEAN :
          RunButton(ind, ctry, key)
    \/ StartTask
    \/ \E t \in TaskSet : \E body \in BodiesOf(t) : FinishTask(t, body)
    \/ \E t \in TaskSet : FailTask(t)
    \/ \E usage \in UsageSamples : KickoffReturns(usage)
    \/ DisplayResults
    \/ DownloadReport
    \/ UsageSection

Spec == Init /\ [][Next]_vars

-----------------------------------------------------------------------------
(* Properties of the handler                                                *)

IndexOf(t) == CHOOSE i \in 1..Len(Tasks) : Tasks[i] = t

\* C1: a press with the industry or the country empty ends with the
\* missing-input error and nothing else: no task was started, none is
\* running, none has an output, the status box never opened.
C1_MissingInputInvokesNothing ==
    (pc # "idle" /\ (industry = "" \/ country = ""))
        => /\ invoked = <<>>
           /\ running = {}
           /\ Completed = {}
           /\ messages = <<"missing_input">>
           /\ status = "none"
           /\ pc = "done"

C1_Witness ==
    /\ pc = "done"
    /\ industry = "FinTech"
    /\ country = ""
    /\ api_key
    /\ messages = <<"missing_input">>

\* C2 (as claimed): when a task before the last has written an output
\* that is not parseable, exactly the tasks up to it were invoked, and
\* once kickoff is over the run has ended in error.
C2_HaltsAtUnparseableStage ==
    \A k \in 1..(Len(Tasks) - 1) :
        (raw_out[Tasks[k]] # Undefined /\ BodyOf(raw_out[Tasks[k]]) = Garbage)
            => /\ Len(invoked) = k
               /\ (pc # "kickoff" => status = "error")

\* C3: the tasks run as one chain in the order generate, enrich contacts,
\* qualify, summarize: the invocations so far are a prefix of that order,
\* at most one task is executing, it is the one invoked last, and every
\* task invoked before it has completed.
C3_LinearChain ==
    /\ Cardinality(running) <= 1
    /\ Len(invoked) <= 4
    /\ invoked = SubSeq(<<"lead_generation_task", "contact_research_task",
                          "lead_qualification_task", "sales_management_task">>,
                        1, Len(invoked))
    /\ \A t \in running : t = invoked[Len(invoked)]
    /\ \A i \in 1..(Len(invoked) - 1) : invoked[i] \in Completed
    /\ \A t \in Completed : \E i \in 1..Len(invoked) : invoked[i] = t

C3_Witness ==
    /\ running = {"sales_management_task"}
    /\ Len(invoked) = 4
    /\ Completed = {"lead_generation_task", "contact_research_task",
                    "lead_qualification_task"}

\* C4: the context a task was started with is the raw outputs of the
\* tasks its context list names, in the order of the list, and each of
\* them had completed, and was invoked, before the task started.
C4_ContextIsDeclaredUpstream ==
    \A t \in TaskSet :
        ctx_passed[t] # Undefined
            => /\ Len(ctx_passed[t].v) = Len(Context(t))
               /\ \A i \in 1..Len(Context(t)) :
                     /\ ctx_passed[t].v[i] # Undefined
                     /\ ctx_passed[t].v[i] = raw_out[Context(t)[i]]
                     /\ ctx_passed[t].v[i].v[1] = Context(t)[i]
                     /\ IndexOf(Context(t)[i]) < IndexOf(t)

C4_Witness ==
    /\ ctx_passed["sales_management_task"] # Undefined
    /\ ctx_passed["sales_management_task"].v =
          <<raw_out["lead_generation_task"], raw_out["lead_qualification_task"],
            raw_out["contact_research_task"]>>
    /\ BodyOf(raw_out["lead_generation_task"]) = Garbage
    /\ BodyOf(raw_out["lead_qualification_task"]) # Garbage

HasAllFields(x) ==
    IsDict(x) /\ \A i \in 1..Len(LeadOutput) : HasKey(x, LeadOutput[i])

\* C5 (as claimed): once the run is reported complete, every item of the
\* result list handed on for display and export is a mapping with all
\* eight declared fields.
C5_ResultIsSchemaShaped ==
    (status = "complete" /\ results_list # Undefined)
        => \A i \in 1..Len(results_list.v) : HasAllFields(results_list.v[i])

\* C6 (as claimed): a list of lead mappings, whatever is absent, null or
\* not coercible in them, is displayed without an error and with a card
\* for every lead.
C6_BadFieldNeverRaises ==
    (/\ pc \in {"download", "usage", "done"}
     /\ results_list # Undefined
     /\ \A i \in 1..Len(results_list.v) : IsDict(results_list.v[i]))
        => /\ \A i \in 1..Len(messages) : messages[i] # "display_error"
           /\ Len(displayed) = Len(results_list.v)

\* C12 (as claimed): when the last task's raw output cannot be parsed,
\* the run is never reported complete or successful, it ends marked as
\* failed, and the outputs of the tasks that completed stay in the result
\* kept for inspection.
C12_UnparseableRunMarkedFailed ==
    LET last == Tasks[Len(Tasks)]
    IN (raw_out[last] # Undefined /\ JsonLoadsRaises(raw_out[last]))
          => /\ status # "complete"
             /\ \A i \in 1..Len(messages) : messages[i] # "success"
             /\ (pc \in {"done", "stopped"} => status = "error")
             /\ (session_results # Undefined
                    => \A i \in 1..Len(Tasks) : session_results.v[i] = raw_out[Tasks[i]])

-----------------------------------------------------------------------------
(* The export on its own: the handler from the moment kickoff has returned, *)
(* over a wider range of leads.                                             *)

\* A review that itself holds a fenced JSON block.
FencedReview ==
    StrV(<<"x">> \o OpenFence \o <<"[]">> \o CloseFence)

\* The items of the export's lists: complete leads, a lead whose review
\* holds a fenced block, one with a decision maker and a two-digit score,
\* one with only a name, one with a null score, one whose name holds a
\* quote and a backslash before an n, a mapping with no key, and an item
\* that is not a mapping.
ExportItems ==
    { FullLead("Acme", IntV(9)),
      FullLead("Bolt", IntV(7)),
      DictV(<< <<"company_name", StrV(<<"Hack">>)>>,
               <<"review", FencedReview>>,
               <<"score", IntV(7)>> >>),
      DictV(<< <<"company_name", StrV(<<"Gear">>)>>,
               <<"key_decision_makers",
                 ListV(<< DictV(<< <<"name", StrV(<<"Ann">>)>>,
                                   <<"linkedin", Null>> >>) >>)>>,
               <<"score", IntV(10)>> >>),
      DictV(<< <<"company_name", StrV(<<"Fuse">>)>> >>),
      FullLead("Cent", Null),
      DictV(<< <<"company_name", StrV(<<QUOTE, "a", BSLASH, "n">>)>> >>),
      DictV(<<>>),
      StrV(<<"oops">>) }

ExportBodies == {ListV(s) : s \in SeqsUpTo(ExportItems, MaxLeads)}

\* The raw outputs of a kickoff whose last task wrote body.
OutputsWith(body) ==
    [t \in TaskSet |->
        RawText(t, IF t = Tasks[Len(Tasks)] THEN body ELSE ListV(<<>>))]

\* The state in which kickoff has just returned with these outputs.
KickoffReturned(outs, usage) ==
    /\ industry = "FinTech"
    /\ country = "Canada"
    /\ api_key = TRUE
    /\ pc = "display"
    /\ running = {}
    /\ invoked = Tasks
    /\ raw_out = outs
    /\ ctx_passed = [t \in TaskSet |-> ListV(BuildContext(t, outs))]
    /\ status = "complete"
    /\ messages = <<"success">>
    /\ session_results = TasksOutput(outs)
    /\ results_list = Undefined
    /\ displayed = <<>>
    /\ download_data = Undefined
    /\ usage_metrics = StrV(usage)
    /\ metrics_dict = Undefined
    /\ pricing_tracker = NewTracker
    /\ tracked = <<>>
    /\ calls = 0
    /\ summary = <<>>
    /\ sharers = [r \in Sharers |-> NotTracking]

InitExport == \E body \in ExportBodies : KickoffReturned(OutputsWith(body), ExampleUsage)

NextExport ==
    \/ DisplayResults
    \/ DownloadReport

SpecExport == InitExport /\ [][NextExport]_vars

AllDicts(list) == \A i \in 1..Len(list.v) : IsDict(list.v[i])

\* C10: the report exported for a sequence of lead mappings holds a
\* structured dump that reads back as that very sequence: the same
\* records in the same order, each with the same fields and values.
C10_ReportRoundTrip ==
    (pc = "usage" /\ results_list # Undefined /\ AllDicts(results_list))
        => ExtractDump(download_data) = results_list

C10_Witness ==
    /\ pc = "usage"
    /\ results_list # Undefined
    /\ Len(results_list.v) = 2
    /\ Get(results_list.v[1], "review", Null) = FencedReview
    /\ Get(results_list.v[2], "company_name", Null) = StrV(<<QUOTE, "a", BSLASH, "n">>)
    /\ ExtractDump(download_data) = results_list

\* The list the last task wrote, as json.loads read it.
ParsedLeads == JsonLoads(LastTask(session_results)).v

DisplaySucceeded ==
    /\ pc \in {"download", "usage", "done"}
    /\ results_list # Undefined
    /\ \A i \in 1..Len(messages) : messages[i] # "display_error"

\* The ways to place the items of a list of n items, one to one.
Placements(n) ==
    {p \in [1..n -> 1..n] : \A i \in 1..n : \A j \in 1..n : p[i] = p[j] => i = j}

\* C11: the list sorted by score is in non-increasing order of score, is
\* a permutation of the list parsed, and keeps records of equal score in
\* the order they had.
C11_SortIsStableDescending ==
    DisplaySucceeded
        => /\ Len(results_list.v) = Len(ParsedLeads)
           /\ \A i \in 1..(Len(results_list.v) - 1) :
                 SortKey(results_list.v[i]) >= SortKey(results_list.v[i + 1])
           /\ \E p \in Placements(Len(ParsedLeads)) :
                 /\ \A i \in 1..Len(ParsedLeads) : results_list.v[p[i]] = ParsedLeads[i]
                 /\ \A i \in 1..Len(ParsedLeads) : \A j \in 1..Len(ParsedLeads) :
                       (i < j /\ SortKey(ParsedLeads[i]) = SortKey(ParsedLeads[j]))
                           => p[i] < p[j]

\* Two leads of score 7, kept in the order they were parsed in.
C11_Witness ==
    /\ DisplaySucceeded
    /\ Len(ParsedLeads) = 2
    /\ ParsedLeads[1] = FullLead("Bolt", IntV(7))
    /\ Get(ParsedLeads[2], "review", Null) = FencedReview
    /\ results_list.v = ParsedLeads

\* A lead of lower score parsed first: the sort moves it behind.
C11_WitnessReordered ==
    /\ DisplaySucceeded
    /\ Len(ParsedLeads) = 2
    /\ SortKey(ParsedLeads[1]) < SortKey(ParsedLeads[2])
    /\ results_list.v = <<ParsedLeads[2], ParsedLeads[1]>>

-----------------------------------------------------------------------------
(* The usage section on its own: the handler from the moment the report is  *)
(* ready, over every short usage text.                                      *)

UsageAtoms == {" ", "=", "7", "x", "prompt_tokens"}

UsageTexts == SeqsUpTo(UsageAtoms, MaxUsageLen) \cup UsageSamples

\* The state in which the report of these leads has just been built.
ReportBuilt(items, usage) ==
    /\ industry = "FinTech"
    /\ country = "Canada"
    /\ api_key = TRUE
    /\ pc = "usage"
    /\ running = {}
    /\ invoked = Tasks
    /\ raw_out = OutputsWith(ListV(items))
    /\ ctx_passed = [t \in TaskSet |-> ListV(BuildContext(t, OutputsWith(ListV(items))))]
    /\ status = "complete"
    /\ messages = <<"success">>
    /\ session_results = TasksOutput(OutputsWith(ListV(items)))
    /\ results_list = ListV(SortedByScore(items))
    /\ displayed = Cards(SortedByScore(items))
    /\ download_data = DownloadData(ListV(SortedByScore(items)))
    /\ usage_metrics = StrV(usage)
    /\ metrics_dict = Undefined
    /\ pricing_tracker = NewTracker
    /\ tracked = <<>>
    /\ calls = 0
    /\ summary = <<>>
    /\ sharers = [r \in Sharers |-> NotTracking]

InitUsage ==
    \E usage \in UsageTexts : ReportBuilt(<<FullLead("Acme", IntV(9))>>, usage)

NextUsage == UsageSection

SpecUsage == InitUsage /\ [][NextUsage]_vars

\* Ingestion as claimed: each token with an equals sign is cut at its
\* first equals sign, the rest being the value.
RECURSIVE ClaimedIngestFrom(_, _, _)
ClaimedIngestFrom(items, i, d) ==
    IF i > Len(items) THEN d
    ELSE LET at == {j \in 1..Len(items[i]) : items[i][j] = "="}
         IN IF at = {} THEN ClaimedIngestFrom(items, i + 1, d)
            ELSE LET c == CHOOSE j \in at : \A k \in at : j <= k
                 IN ClaimedIngestFrom(items, i + 1,
                        SetItem(d, SubSeq(items[i], 1, c - 1),
                                Coerce(SubSeq(items[i], c + 1, Len(items[i])))))

\* C8 (as claimed): the metrics ingested from a usage text are its
\* whitespace-separated tokens cut at their first equals sign, integers
\* where the value is one and the raw text otherwise.
C8_IngestSplitsOnFirstEquals ==
    pc = "done" => metrics_dict = ClaimedIngestFrom(SplitWhitespace(usage_metrics.v), 1, DictV(<<>>))

\* A text that is empty, or whose tokens have no equals sign or give a
\* token-count key a value that is no integer.
Malformed(text) ==
    \A i \in 1..Len(SplitWhitespace(text)) :
        LET parts == SplitOn(SplitWhitespace(text)[i], "=")
        IN \/ Len(parts) = 1
           \/ /\ Len(parts) = 2
              /\ parts[1] \in {<<"prompt_tokens">>, <<"completion_tokens">>}
              /\ ~IsNumeral(parts[2])

\* C9 (as claimed): after a malformed usage text no usage warning was
\* raised and the tracker was updated once, with zero input and zero
\* output tokens.
C9_MalformedUsageCountsZero ==
    (pc = "done" /\ Malformed(usage_metrics.v))
        => /\ \A i \in 1..Len(messages) : messages[i] # "usage_warning"
           /\ tracked = << <<0, 0>> >>
           /\ calls = 1

-----------------------------------------------------------------------------
(* The pricing tracker on its own: calls made on it during a session.       *)

TokenAmounts == {0, 500, 1000}

handlerVars ==
    <<industry, country, api_key, pc, crewVars, status, messages, displayVars,
      usage_metrics, metrics_dict>>

\* track_usage(i, o)
TrackCall(i, o) ==
    /\ calls < MaxCalls
    /\ pricing_tracker' = TrackUsage(pricing_tracker, i, o)
    /\ tracked' = Append(tracked, <<i, o>>)
    /\ calls' = calls + 1
    /\ UNCHANGED <<handlerVars, summary, sharers>>

\* reset()
ResetCall ==
    /\ calls < MaxCalls
    /\ pricing_tracker' = ResetUsage(pricing_tracker)
    /\ tracked' = <<>>
    /\ calls' = calls + 1
    /\ UNCHANGED <<handlerVars, summary, sharers>>

\* get_usage_summary()
SummaryCall ==
    /\ calls < MaxCalls
    /\ summary' = GetUsageSummary(pricing_tracker)
    /\ calls' = calls + 1
    /\ UNCHANGED <<handlerVars, pricing_tracker, tracked, sharers>>

NextTracker ==
    \/ \E i \in TokenAmounts, o \in TokenAmounts : TrackCall(i, o)
    \/ ResetCall
    \/ SummaryCall

SpecTracker == Init /\ [][NextTracker]_vars

RECURSIVE SumOf(_, _)
SumOf(pairs, k) ==
    IF pairs = <<>> THEN 0 ELSE pairs[1][k] + SumOf(Tail(pairs), k)

\* C7: the summary of the tracker is the sums of the input and of the
\* output tokens tracked since the last reset (since creation if none),
\* zero for both right after a reset.
C7_SummaryIsSumSinceReset ==
    GetUsageSummary(pricing_tracker) = <<SumOf(tracked, 1), SumOf(tracked, 2)>>

C7_Witness ==
    /\ calls = 2
    /\ tracked = << <<1000, 500>> >>
    /\ summary = <<1000, 500>>

-----------------------------------------------------------------------------
(* One pricing tracker shared by runs that reach their track_usage call at  *)
(* the same time.                                                           *)

\* Run r enters track_usage(i, o) and sees the counters as they are.
EnterTrack(r, i, o) ==
    /\ sharers[r].pc = "ready"
    /\ sharers' = [sharers EXCEPT ![r] =
                      [pc |-> "in_track", args |-> <<i, o>>, snap |-> pricing_tracker]]
    /\ UNCHANGED <<handlerVars, pricing_tracker, tracked, calls, summary>>

\* Run r's increment takes effect and its call returns.
CommitTrack(r) ==
    /\ sharers[r].pc = "in_track"
    /\ pricing_tracker' = TrackUsage(CommitBase(pricing_tracker, sharers[r].snap),
                                      sharers[r].args[1], sharers[r].args[2])
    /\ tracked' = Append(tracked, sharers[r].args)
    /\ calls' = calls + 1
    /\ sharers' = [sharers EXCEPT ![r].pc = "done"]
    /\ UNCHANGED <<handlerVars, summary>>

NextShared ==
    \/ \E r \in Sharers : \E i \in TokenAmounts, o \in TokenAmounts : EnterTrack(r, i, o)
    \/ \E r \in Sharers : CommitTrack(r)

SpecShared == Init /\ [][NextShared]_vars

\* The amount of kind k (1: input, 2: output) tracked by the runs 1..n
\* whose call has returned.
RECURSIVE Returned(_, _)
Returned(n, k) ==
    IF n = 0 THEN 0
    ELSE (IF sharers[n].pc = "done" THEN sharers[n].args[k] ELSE 0) + Returned(n - 1, k)

====
